---- MODULE Spec2Model ----
(***************************************************************************)
(* Free Fire ban-checker bot (src/app.py, src/utils.py) as a state machine. *)
(*                                                                         *)
(* Strings that the code inspects character by character (player ids) are  *)
(* sequences of one-character strings.  A Python dict is a sequence of     *)
(* <<key, value>> pairs in insertion order; a key is <<"int", n>> or       *)
(* <<"str", n>> (the decimal text of n), because json turns the first into *)
(* the second and a dict lookup tells them apart.  A value json.load may   *)
(* put where the map belongs and that is no dict is a sequence of pairs    *)
(* too: a str is its <<"chr", index>> -> character code pairs, None is the *)
(* one pair with key <<"none", 0>>.                                        *)
(***************************************************************************)
EXTENDS Integers, Sequences, FiniteSets, TLC

\* ------------------------------------------------------------------ bounds
MaxGuild == 1
MaxChannel == 2
MaxUser == 1
MaxPad == 19
MaxTail == 2

Guilds == 1..MaxGuild
Channels == 1..MaxChannel
Users == 1..MaxUser
NoGuild == 0

\* ------------------------------------------------------- program constants
API_ENDPOINTS == <<"E1", "E2">>
DEFAULT_LANG == "en"
USE_MOCK_IF_API_FAILS == TRUE
MOCK_PLAYER_NAMES ==
    << "ProPlayer", "ShadowNinja", "FireStorm", "IceQueen", "DarkKnight",
       "LightWarrior", "MysticSage", "ThunderBolt", "VenomStrike", "PhoenixRise",
       "CyberHunter", "GhostWalker", "DragonSlayer", "BlazeMaster", "FrostLord",
       "SteelTitan", "NightWolf", "SunFlare", "MoonDancer", "StarChaser" >>
Languages == {"en", "fr"}
MinIdLen == 6
MaxIdLen == 20
HashModulus == 1000
BanThreshold == 30

\* ------------------------------------------------------------ characters
AsciiDigits == {"0", "1", "2", "3", "4", "5", "6", "7", "8", "9"}
\* U+0663 ARABIC-INDIC DIGIT THREE and U+00B2 SUPERSCRIPT TWO: str.isdigit()
\* is true of both, neither is one of 0-9.
NonAsciiDigits == {"U+0663", "U+00B2"}
Chars == {"1", "7"} \cup {"U+0663"} \cup {"a"}

\* str.isdigit(): non-empty and every character has the Unicode digit property.
str_isdigit(s) ==
    /\ Len(s) > 0
    /\ \A i \in 1..Len(s) : s[i] \in AsciiDigits \cup NonAsciiDigits

validate_player_id(player_id) ==
    str_isdigit(player_id) /\ Len(player_id) <= MaxIdLen /\ Len(player_id) >= MinIdLen

\* The pattern ^[0-9]{6,20}$ of the specification.
MatchesAsciiPattern(s) ==
    /\ MinIdLen <= Len(s) /\ Len(s) <= MaxIdLen
    /\ \A i \in 1..Len(s) : s[i] \in AsciiDigits

\* ------------------------------------------------------------------ dicts
IntKey(n) == <<"int", n>>
StrKey(n) == <<"str", n>>

DictKeys(d) == {d[i][1] : i \in 1..Len(d)}
DictHas(d, k) == k \in DictKeys(d)
DictIndex(d, k) == CHOOSE i \in 1..Len(d) : d[i][1] = k
DictGet(d, k) == d[DictIndex(d, k)][2]
DictSet(d, k, v) ==
    IF DictHas(d, k)
    THEN [d EXCEPT ![DictIndex(d, k)] = <<k, v>>]
    ELSE Append(d, <<k, v>>)
DictDel(d, k) == SelectSeq(d, LAMBDA e : e[1] # k)

\* The type of a value that stands where the map belongs.
PyType(v) ==
    IF v = <<>> THEN "dict"
    ELSE CASE v[1][1][1] = "chr" -> "str"
           [] v[1][1][1] = "none" -> "none"
           [] OTHER -> "dict"

\* The str "x" and None.
PyStrX == << << <<"chr", 0>>, 120 >> >>
PyNone == << << <<"none", 0>>, 0 >> >>

\* json.dump of a dict: every key is written as a string, an int key as its
\* decimal text; entries keep their order, so two keys may be written alike.
json_key(k) == StrKey(k[2])
json_dump_object(d) == [i \in 1..Len(d) |-> <<json_key(d[i][1]), d[i][2]>>]

\* json.load of an object: keys are strings, a repeated key keeps its last value.
RECURSIVE json_load_object(_)
json_load_object(pairs) ==
    IF pairs = <<>> THEN <<>>
    ELSE LET n == Len(pairs)
         IN  DictSet(json_load_object(SubSeq(pairs, 1, n - 1)), pairs[n][1], pairs[n][2])

\* json.load of the value under 'allowed_channels'.
json_load_value(v) == IF PyType(v) = "dict" THEN json_load_object(v) ELSE v

\* ------------------------------------------------------------ channel gate
is_allowed_channel(guild_id, channel_id, channels) ==
    IF ~DictHas(channels, IntKey(guild_id))
    THEN TRUE
    ELSE channel_id = DictGet(channels, IntKey(guild_id))


\* ------------------------------------------------------------------ state
VARIABLES
    allowed_channels,   \* app.py:130  guild id -> channel id (a dict)
    user_languages,     \* app.py:127  user id -> language code, "absent" for no entry
    api_status,         \* app.py:133  result of the last finished health check
    config_file,        \* bot_config.json on disk
    random_state,       \* state of the process-wide random module generator
    hash_seed,          \* the per-process key of str hash()
    check_ban_task,     \* the in-flight !ID invocation, suspended at an await
    health_task,        \* the in-flight check_api_health call, suspended at an await
    outbox,             \* the messages the last handler step sent to the user
    arg_player_id,      \* the string handed to validate_player_id
    arg_valid           \* <<what validate_player_id answered for it>>, <<>> before

vars == << allowed_channels, user_languages, api_status, config_file, random_state,
           hash_seed, check_ban_task, health_task, outbox, arg_player_id, arg_valid >>

\* Player ids a user types into !ID in the bot's runs.
Id123456 == <<"1", "2", "3", "4", "5", "6">>
Id777777 == <<"7", "7", "7", "7", "7", "7">>
Id12 == <<"1", "2">>
IdArabic == <<"U+0663", "U+0663", "U+0663", "U+0663", "U+0663", "U+0663">>
ValidIds == {Id123456, Id777777}
PlayerIds == ValidIds \cup {Id12, IdArabic}
MissingArgument == <<"<missing>">>

\* ------------------------------------------------------------ config store
\* What the 'w' open and json.dump leave on disk: the open may fail (file
\* untouched), the dump may fail after the open truncated the file.
\* The file is one of: "missing"; "json", an object whose 'allowed_channels'
\* is the value in the field allowed_channels; "json_array" and "json_null",
\* valid JSON whose top level is [] or null; "truncated", no valid JSON.
WriteOutcomes == {"ok", "open_failed", "dump_failed"}
ReadOutcomes == {"ok", "error"}

save_bot_config(data, outcome) ==
    CASE outcome = "ok" -> [kind |-> "json", allowed_channels |-> json_dump_object(data)]
      [] outcome = "open_failed" -> config_file
      [] OTHER -> [kind |-> "truncated", allowed_channels |-> <<>>]

DefaultConfig == [allowed_channels |-> <<>>]

load_bot_config(outcome) ==
    IF outcome = "error" THEN DefaultConfig
    ELSE CASE config_file.kind = "json" ->
                  [allowed_channels |-> json_load_value(config_file.allowed_channels)]
           [] config_file.kind = "json_array" -> [toplevel |-> "list"]
           [] config_file.kind = "json_null" -> [toplevel |-> "none"]
           [] config_file.kind = "missing" -> DefaultConfig
           [] OTHER -> DefaultConfig

\* The value of the global after load_allowed_channels(): `in` on a list
\* finds no key, `in` on None and len() of None raise TypeError inside the
\* try, whose handler empties the map; a str has a len and is kept.
load_allowed_channels(outcome) ==
    LET config == load_bot_config(outcome)
    IN  IF "toplevel" \in DOMAIN config
        THEN IF config.toplevel = "list" THEN allowed_channels ELSE <<>>
        ELSE IF "allowed_channels" \in DOMAIN config
        THEN IF PyType(config.allowed_channels) = "none"
             THEN <<>>
             ELSE config.allowed_channels
        ELSE allowed_channels

\* The file after save_allowed_channels() has written the map `channels`.
save_allowed_channels(channels, outcome) == save_bot_config(channels, outcome)


\* ---------------------------------------------------- hash() and random
\* hash(str) is keyed by a per-process secret; within a process it is a
\* function of the string.  A keyed polynomial hash stands for SipHash.
CharCode(c) ==
    CASE c = "1" -> 49 [] c = "2" -> 50 [] c = "3" -> 51 [] c = "4" -> 52
      [] c = "5" -> 53 [] c = "6" -> 54 [] c = "7" -> 55 [] OTHER -> 99

RECURSIVE py_hash(_, _)
py_hash(key, s) ==
    IF s = <<>> THEN key
    ELSE (py_hash(key, SubSeq(s, 1, Len(s) - 1)) * 31 + CharCode(s[Len(s)])) % 65536

\* The generator of the random module: a state, and draws that advance it.
\* A linear congruential step stands for the Mersenne Twister.
RandomStates == 1024
random_seed(n) == (n * 7 + 3) % RandomStates
random_advance(state) == (state * 421 + 17) % RandomStates
\* random.random() as a percentage 0..99, drawn from the advanced state.
random_random(state) == random_advance(state) % 100
\* random.choice(seq): an index into seq, drawn from the advanced state.
random_choice(state, n) == (random_advance(state) % n) + 1

DemoSuffix == " [DEMO]"

\* mock_player_status without the random.seed call: draws from wherever the
\* process-wide generator happens to be.
mock_player_status_unseeded(player_id, state) ==
    LET s1 == random_advance(state)
        s2 == random_advance(s1)
    IN  [ data |-> [ id |-> player_id,
                     name |-> <<MOCK_PLAYER_NAMES[random_choice(s1, Len(MOCK_PLAYER_NAMES))]>>,
                     banned |-> random_random(state) < BanThreshold,
                     mock |-> TRUE ],
          state |-> s2 ]

\* mock_player_status(player_id) run with the generator in `state`: the
\* record it returns and the generator state it leaves behind.
mock_player_status(player_id, state) ==
    LET s0 == random_seed(py_hash(hash_seed, player_id) % HashModulus)
        s1 == random_advance(s0)
        s2 == random_advance(s1)
    IN  [ data |-> [ id |-> player_id,
                     name |-> <<MOCK_PLAYER_NAMES[random_choice(s1, Len(MOCK_PLAYER_NAMES))]>>,
                     banned |-> random_random(s0) < BanThreshold,
                     mock |-> TRUE ],
          state |-> s2 ]

\* ------------------------------------------------------ get_player_status
\* What one GET of an endpoint can come to.
ResponseKinds ==
    { "ok",             \* 200, a JSON object with 'id'
      "no_id",          \* 200, JSON that is no object with 'id'
      "bad_json",       \* 200, body is no JSON
      "http_error",     \* a status other than 200
      "client_error",   \* aiohttp.ClientError: refused, reset, connect/read timeout
      "total_timeout",  \* asyncio.TimeoutError of the total timeout
      "other_error" }   \* any other exception, e.g. a body that does not decode

\* Records a live endpoint answers for a player id.
LivePayloads(player_id) ==
    { [id |-> player_id, name |-> <<"LivePlayer">>, banned |-> TRUE],
      [id |-> player_id, banned |-> FALSE] }

Responses(player_id) ==
    { [kind |-> "ok", data |-> d] : d \in LivePayloads(player_id) }
      \cup { [kind |-> k] : k \in ResponseKinds \ {"ok"} }

None == [none |-> TRUE]

\* utils.py imports no asyncio: reaching the clause `except asyncio.TimeoutError`
\* raises NameError, which leaves get_player_status.
AsyncioImported == FALSE

get_player_status_requires_name(response) ==
    CASE response.kind = "ok" ->
            IF "name" \in DOMAIN response.data
            THEN [raised |-> FALSE, value |-> response.data]
            ELSE [raised |-> FALSE, value |-> None]
      [] response.kind \in {"no_id", "bad_json", "http_error", "client_error"} ->
            [raised |-> FALSE, value |-> None]
      [] OTHER -> [raised |-> ~AsyncioImported, value |-> None]

\* The result of get_player_status for one response of the endpoint:
\* a returned value, or an exception raised to the caller.
get_player_status(response) ==
    CASE response.kind = "ok" -> [raised |-> FALSE, value |-> response.data]
      [] response.kind \in {"no_id", "bad_json", "http_error", "client_error"} ->
            [raised |-> FALSE, value |-> None]
      [] OTHER -> [raised |-> ~AsyncioImported, value |-> None]

\* ---------------------------------------------------- build_embed_response
Get(d, k, default) == IF k \in DOMAIN d THEN d[k] ELSE default

\* build_embed_response that marks the footer by the API state, as check_ban
\* decides its note, instead of by the record's mock flag.
build_embed_response_demo_when_offline(status_data, lang) ==
    LET player_id == Get(status_data, "id", <<"N/A">>)
        is_banned == Get(status_data, "banned", FALSE)
        player_name == Get(status_data, "name", <<"Unknown">>)
        bundle == IF is_banned THEN "banned" ELSE "not_banned"
    IN  [ title |-> <<bundle, lang, "title">>,
          color |-> IF is_banned THEN "0xFF0000" ELSE "0x00FF00",
          fields |-> << [name |-> <<"fields", lang, "player_id">>,
                         value |-> <<"backquote", player_id, "backquote">>, inline |-> TRUE],
                        [name |-> <<"fields", lang, "player_name">>,
                         value |-> player_name, inline |-> TRUE],
                        [name |-> <<"fields", lang, "status">>,
                         value |-> <<bundle, lang, "description">>, inline |-> FALSE] >>,
          footer |-> IF ~api_status.working
                     THEN << <<bundle, lang, "footer">>, "Demo Data", "Developer" >>
                     ELSE << <<bundle, lang, "footer">>, "Developer" >> ]

\* build_embed_response that adds the player-name field before the player-id field.
build_embed_response_name_first(status_data, lang) ==
    LET player_id == Get(status_data, "id", <<"N/A">>)
        is_banned == Get(status_data, "banned", FALSE)
        player_name == Get(status_data, "name", <<"Unknown">>)
        is_mock == Get(status_data, "mock", FALSE)
        bundle == IF is_banned THEN "banned" ELSE "not_banned"
    IN  [ title |-> <<bundle, lang, "title">>,
          color |-> IF is_banned THEN "0xFF0000" ELSE "0x00FF00",
          fields |-> << [name |-> <<"fields", lang, "player_name">>,
                         value |-> player_name, inline |-> TRUE],
                        [name |-> <<"fields", lang, "player_id">>,
                         value |-> <<"backquote", player_id, "backquote">>, inline |-> TRUE],
                        [name |-> <<"fields", lang, "status">>,
                         value |-> <<bundle, lang, "description">>, inline |-> FALSE] >>,
          footer |-> IF is_mock
                     THEN << <<bundle, lang, "footer">>, "Demo Data", "Developer" >>
                     ELSE << <<bundle, lang, "footer">>, "Developer" >> ]

build_embed_response(status_data, lang) ==
    LET player_id == Get(status_data, "id", <<"N/A">>)
        is_banned == Get(status_data, "banned", FALSE)
        player_name == Get(status_data, "name", <<"Unknown">>)
        is_mock == Get(status_data, "mock", FALSE)
        bundle == IF is_banned THEN "banned" ELSE "not_banned"
    IN  [ title |-> <<bundle, lang, "title">>,
          color |-> IF is_banned THEN "0xFF0000" ELSE "0x00FF00",
          fields |-> << [name |-> <<"fields", lang, "player_id">>,
                         value |-> <<"backquote", player_id, "backquote">>, inline |-> TRUE],
                        [name |-> <<"fields", lang, "player_name">>,
                         value |-> player_name, inline |-> TRUE],
                        [name |-> <<"fields", lang, "status">>,
                         value |-> <<bundle, lang, "description">>, inline |-> FALSE] >>,
          footer |-> IF is_mock
                     THEN << <<bundle, lang, "footer">>, "Demo Data", "Developer" >>
                     ELSE << <<bundle, lang, "footer">>, "Developer" >> ]

DemoNote == [name |-> <<"Note">>, value |-> <<"Demo Mode (API offline)">>, inline |-> FALSE]


\* ------------------------------------------------------------ initial state
Absent == "absent"
HashSeeds == {11, 12}
InitialRandomStates == {0, 5}

IdleTask == [pc |-> "idle"]
NoEndpoint == "None"

\* Module-level state of app.py when main() calls start_bot(), whose first
\* step is a health check; the bot connects after it.
InitMemory ==
    /\ allowed_channels = <<>>
    /\ user_languages = [u \in Users |-> Absent]
    /\ api_status = [working |-> FALSE, active_endpoint |-> NoEndpoint]
    /\ random_state \in InitialRandomStates
    /\ hash_seed \in HashSeeds
    /\ check_ban_task = IdleTask
    /\ health_task = [pc |-> "request", idx |-> 1, caller |-> "start_bot"]
    /\ outbox = <<>>

Init ==
    /\ InitMemory
    /\ config_file = [kind |-> "missing", allowed_channels |-> <<>>]
    /\ arg_player_id = <<>>
    /\ arg_valid = <<>>

\* Commands and events reach the handlers once bot.start() runs, that is
\* after start_bot's own health check has returned.
Connected == ~(health_task.pc = "request" /\ health_task.caller = "start_bot")

\* ------------------------------------------------------------ error handler
\* str(error) of a failed check is discord.py's "The check functions for
\* command ... failed." or "You are missing ... permission(s) ...": the word
\* "predicate" is in neither.
ErrorTextHasPredicate(error) == FALSE

user_language(u) ==
    IF user_languages[u] = Absent THEN DEFAULT_LANG ELSE user_languages[u]

\* The messages on_command_error sends for an error of the given class.
\* MissingPermissions and BotMissingPermissions are CheckFailures.
on_command_error(error, u) ==
    CASE error = "CommandNotFound" -> <<>>
      [] error = "MissingRequiredArgument" ->
            << [kind |-> "missing_id", lang |-> user_language(u)] >>
      [] error \in {"CheckFailure", "MissingPermissions", "BotMissingPermissions"} ->
            IF ErrorTextHasPredicate(error) THEN <<>>
            ELSE << [kind |-> "admin_required"] >>
      [] OTHER -> <<>>

\* ------------------------------------------------- check_channel_restriction
predicate_inverted(guild, channel) ==
    IF guild = NoGuild THEN TRUE
    ELSE IF ~DictHas(allowed_channels, IntKey(guild)) THEN TRUE
    ELSE channel # DictGet(allowed_channels, IntKey(guild))

\* The decision of predicate(ctx): guild is NoGuild in a direct message.
predicate(guild, channel) ==
    IF guild = NoGuild THEN TRUE
    ELSE IF ~DictHas(allowed_channels, IntKey(guild)) THEN TRUE
    ELSE IF channel = DictGet(allowed_channels, IntKey(guild)) THEN TRUE
    ELSE FALSE

restriction_message_stale_only(guild, found) ==
    << [kind |-> "restricted_stale"] >>

\* What predicate(ctx) sends when it denies; found is whether
\* ctx.guild.get_channel finds the mapped channel.
restriction_message(guild, found) ==
    IF found
    THEN << [kind |-> "restricted", channel |-> DictGet(allowed_channels, IntKey(guild))] >>
    ELSE << [kind |-> "restricted_stale"] >>

\* `guild_id not in allowed_channels` with an int on the left raises TypeError
\* when the global holds a str.
MembershipRaises == PyType(allowed_channels) = "str"

predicate_raises(guild) == guild # NoGuild /\ MembershipRaises

\* A gated command whose gate raised: no CommandError, so on_command_error
\* is not called; the event loop's on_error prints the traceback.
GateRaises(guild) ==
    /\ predicate_raises(guild)
    /\ outbox' = <<>>

GateAllows(guild, channel) == ~predicate_raises(guild) /\ predicate(guild, channel)

\* A gated command that the gate denied: the predicate's message, then the
\* CheckFailure goes to on_command_error.
GateDenies(guild, channel, u, found) ==
    /\ ~predicate_raises(guild)
    /\ ~predicate(guild, channel)
    /\ outbox' = restriction_message(guild, found) \o on_command_error("CheckFailure", u)


\* ------------------------------------------------------------------ !ID
\* Lines 379-414 once the endpoint loop is over with status_data = found
\* (None when no endpoint was tried or none was accepted).  The one send
\* carries the embed, with the GIF attached when the asset file exists.
CheckBanFinish(found) ==
    LET player_id == check_ban_task.player_id
        lang == check_ban_task.lang
        use_mock == found = None /\ USE_MOCK_IF_API_FAILS
        mock == mock_player_status(player_id, random_state)
        status_data ==
            IF use_mock
            THEN [mock.data EXCEPT !.name = Append(@, DemoSuffix)]
            ELSE found
        embed == build_embed_response(status_data, lang)
        noted ==
            IF ~api_status.working /\ USE_MOCK_IF_API_FAILS
            THEN [embed EXCEPT !.fields = Append(@, DemoNote)]
            ELSE embed
    IN  /\ random_state' = IF use_mock THEN mock.state ELSE random_state
        /\ check_ban_task' = IdleTask
        /\ outbox' =
             IF status_data = None
             THEN << [kind |-> "api_error", lang |-> lang] >>
             ELSE << [kind |-> "status", embed |-> noted, status_data |-> status_data] >>

\* !ID that starts its lookup before it looks at the identifier.
check_ban_validates_late(guild, channel, u, found, player_id) ==
    /\ Connected
    /\ \/ /\ GateRaises(guild)
          /\ UNCHANGED check_ban_task
       \/ /\ GateDenies(guild, channel, u, found)
          /\ UNCHANGED check_ban_task
       \/ /\ GateAllows(guild, channel)
          /\ player_id = MissingArgument
          /\ outbox' = on_command_error("MissingRequiredArgument", u)
          /\ UNCHANGED check_ban_task
       \/ /\ GateAllows(guild, channel)
          /\ player_id # MissingArgument
          /\ check_ban_task.pc = "idle"
          /\ check_ban_task' = [pc |-> "typing", player_id |-> player_id,
                                lang |-> user_language(u), requests |-> <<>>]
          /\ outbox' = <<>>
    /\ UNCHANGED << allowed_channels, user_languages, api_status, config_file,
                    random_state, hash_seed, health_task, arg_player_id, arg_valid >>

\* !ID up to its first await: the gate, the argument, the validation.
\* found is what ctx.guild.get_channel answers for the mapped channel.
check_ban(guild, channel, u, found, player_id) ==
    /\ Connected
    /\ \/ /\ GateRaises(guild)
          /\ UNCHANGED check_ban_task
       \/ /\ GateDenies(guild, channel, u, found)
          /\ UNCHANGED check_ban_task
       \/ /\ GateAllows(guild, channel)
          /\ player_id = MissingArgument
          /\ outbox' = on_command_error("MissingRequiredArgument", u)
          /\ UNCHANGED check_ban_task
       \/ /\ GateAllows(guild, channel)
          /\ player_id # MissingArgument
          /\ ~validate_player_id(player_id)
          /\ outbox' = << [kind |-> "invalid_id", lang |-> user_language(u)] >>
          /\ UNCHANGED check_ban_task
       \/ /\ GateAllows(guild, channel)
          /\ player_id # MissingArgument
          /\ validate_player_id(player_id)
          /\ check_ban_task.pc = "idle"
          /\ check_ban_task' = [pc |-> "typing", player_id |-> player_id,
                                lang |-> user_language(u), requests |-> <<>>]
          /\ outbox' = <<>>
    /\ UNCHANGED << allowed_channels, user_languages, api_status, config_file,
                    random_state, hash_seed, health_task, arg_player_id, arg_valid >>

\* Line 373, reached when ctx.typing() has been entered: the endpoints are
\* tried only if the last health check found one working.
check_ban_enter ==
    /\ check_ban_task.pc = "typing"
    /\ IF api_status.working /\ api_status.active_endpoint # NoEndpoint
       THEN /\ check_ban_task' = [check_ban_task EXCEPT !.pc = "request"] @@ [idx |-> 1]
            /\ outbox' = <<>>
            /\ UNCHANGED random_state
       ELSE CheckBanFinish(None)
    /\ UNCHANGED << allowed_channels, user_languages, api_status, config_file,
                    hash_seed, health_task, arg_player_id, arg_valid >>

\* Lines 374-377 and 416-419: get_player_status for endpoint idx returns or raises.
check_ban_response(response) ==
    /\ check_ban_task.pc = "request"
    /\ LET idx == check_ban_task.idx
           result == get_player_status(response)
           requests == Append(check_ban_task.requests,
                              [endpoint |-> API_ENDPOINTS[idx], response |-> response.kind])
       IN  IF result.raised
           THEN /\ outbox' = << [kind |-> "unexpected", lang |-> check_ban_task.lang] >>
                /\ check_ban_task' = IdleTask
                /\ UNCHANGED random_state
           ELSE IF result.value # None
           THEN CheckBanFinish(result.value)
           ELSE IF idx < Len(API_ENDPOINTS)
           THEN /\ check_ban_task' = [check_ban_task EXCEPT !.idx = idx + 1,
                                                            !.requests = requests]
                /\ outbox' = <<>>
                /\ UNCHANGED random_state
           ELSE CheckBanFinish(None)
    /\ UNCHANGED << allowed_channels, user_languages, api_status, config_file,
                    hash_seed, health_task, arg_player_id, arg_valid >>

\* ------------------------------------------------------- check_api_health
HealthOutcomes == {"200", "not_200", "exception"}

\* One endpoint's answer reaches check_api_health; when the call returns, its
\* caller goes on: api_status_command sends its embed.
check_api_health(outcome) ==
    /\ health_task.pc = "request"
    /\ LET idx == health_task.idx
           finished == outcome = "200" \/ idx = Len(API_ENDPOINTS)
           status == IF outcome = "200"
                     THEN [working |-> TRUE, active_endpoint |-> API_ENDPOINTS[idx]]
                     ELSE [working |-> FALSE, active_endpoint |-> NoEndpoint]
       IN  IF finished
           THEN /\ api_status' = status
                /\ health_task' = IdleTask
                /\ outbox' = IF health_task.caller = "api_status_command"
                             THEN << [kind |-> "api_status", working |-> status.working,
                                      active_endpoint |-> status.active_endpoint] >>
                             ELSE <<>>
           ELSE /\ health_task' = [health_task EXCEPT !.idx = idx + 1]
                /\ outbox' = <<>>
                /\ UNCHANGED api_status
    /\ UNCHANGED << allowed_channels, user_languages, config_file, random_state,
                    hash_seed, check_ban_task, arg_player_id, arg_valid >>

api_status_command ==
    /\ Connected
    /\ health_task.pc = "idle"
    /\ health_task' = [pc |-> "request", idx |-> 1, caller |-> "api_status_command"]
    /\ outbox' = <<>>
    /\ UNCHANGED << allowed_channels, user_languages, api_status, config_file,
                    random_state, hash_seed, check_ban_task, arg_player_id, arg_valid >>

\* on_ready: the map is reloaded from the file, then the health check starts.
on_ready ==
    /\ Connected
    /\ health_task.pc = "idle"
    /\ \E outcome \in ReadOutcomes : allowed_channels' = load_allowed_channels(outcome)
    /\ health_task' = [pc |-> "request", idx |-> 1, caller |-> "on_ready"]
    /\ outbox' = <<>>
    /\ UNCHANGED << user_languages, api_status, config_file, random_state,
                    hash_seed, check_ban_task, arg_player_id, arg_valid >>

\* ------------------------------------------------------------------ !lang
NoArgument == "<none>"
LanguageArguments == {NoArgument, "en", "fr", " FR", "de"}

\* language.lower().strip()
lower_strip(language) == IF language = " FR" THEN "fr" ELSE language

\* !lang that stores the code it was given without looking it up.
set_language_unvalidated(guild, channel, u, found, language) ==
    /\ Connected
    /\ \/ /\ GateRaises(guild)
          /\ UNCHANGED user_languages
       \/ /\ GateDenies(guild, channel, u, found)
          /\ UNCHANGED user_languages
       \/ /\ GateAllows(guild, channel)
          /\ language = NoArgument
          /\ outbox' = << [kind |-> "current_language", lang |-> user_language(u)] >>
          /\ UNCHANGED user_languages
       \/ /\ GateAllows(guild, channel)
          /\ language # NoArgument
          /\ user_languages' = [user_languages EXCEPT ![u] = lower_strip(language)]
          /\ outbox' = << [kind |-> "language_set", lang |-> lower_strip(language)] >>
    /\ UNCHANGED << allowed_channels, api_status, config_file, random_state, hash_seed,
                    check_ban_task, health_task, arg_player_id, arg_valid >>

set_language(guild, channel, u, found, language) ==
    /\ Connected
    /\ \/ /\ GateRaises(guild)
          /\ UNCHANGED user_languages
       \/ /\ GateDenies(guild, channel, u, found)
          /\ UNCHANGED user_languages
       \/ /\ GateAllows(guild, channel)
          /\ language = NoArgument
          /\ outbox' = << [kind |-> "current_language", lang |-> user_language(u)] >>
          /\ UNCHANGED user_languages
       \/ /\ GateAllows(guild, channel)
          /\ language # NoArgument
          /\ lower_strip(language) \notin Languages
          /\ outbox' = << [kind |-> "available_languages"] >>
          /\ UNCHANGED user_languages
       \/ /\ GateAllows(guild, channel)
          /\ language # NoArgument
          /\ lower_strip(language) \in Languages
          /\ user_languages' = [user_languages EXCEPT ![u] = lower_strip(language)]
          /\ outbox' = << [kind |-> "language_set", lang |-> lower_strip(language)] >>
    /\ UNCHANGED << allowed_channels, api_status, config_file, random_state, hash_seed,
                    check_ban_task, health_task, arg_player_id, arg_valid >>

\* ---------------------------------------------------------------- !guilds
server_count(guild, channel, u, found) ==
    /\ Connected
    /\ \/ GateRaises(guild)
       \/ GateDenies(guild, channel, u, found)
       \/ /\ GateAllows(guild, channel)
          /\ outbox' = << [kind |-> "server_count", lang |-> user_language(u),
                           api_working |-> api_status.working] >>
    /\ UNCHANGED << allowed_channels, user_languages, api_status, config_file,
                    random_state, hash_seed, check_ban_task, health_task,
                    arg_player_id, arg_valid >>

\* ------------------------------------------------ !setchannel, !removechannel
\* has_permissions(administrator=True): never met in a direct message.
has_permissions(guild, administrator) == guild # NoGuild /\ administrator

\* save_allowed_channels() after the map became `channels`: the file it leaves.
SaveAllowedChannels(channels) ==
    \E outcome \in WriteOutcomes : config_file' = save_allowed_channels(channels, outcome)

set_restricted_channel_unchecked(guild, channel, u, administrator) ==
    /\ Connected
    /\ guild # NoGuild
    /\ allowed_channels' = DictSet(allowed_channels, IntKey(guild), channel)
    /\ SaveAllowedChannels(allowed_channels')
    /\ outbox' = << [kind |-> "channel_set", channel |-> channel] >>
    /\ UNCHANGED << user_languages, api_status, random_state, hash_seed,
                    check_ban_task, health_task, arg_player_id, arg_valid >>

set_restricted_channel(guild, channel, u, administrator) ==
    /\ Connected
    /\ IF ~has_permissions(guild, administrator)
       THEN /\ outbox' = on_command_error("MissingPermissions", u)
            /\ UNCHANGED << allowed_channels, config_file >>
       ELSE IF PyType(allowed_channels) # "dict"
       THEN /\ outbox' = on_command_error("CommandInvokeError", u)
            /\ UNCHANGED << allowed_channels, config_file >>
       ELSE /\ allowed_channels' = DictSet(allowed_channels, IntKey(guild), channel)
            /\ SaveAllowedChannels(allowed_channels')
            /\ outbox' = << [kind |-> "channel_set", channel |-> channel] >>
    /\ UNCHANGED << user_languages, api_status, random_state, hash_seed,
                    check_ban_task, health_task, arg_player_id, arg_valid >>

remove_channel_restriction(guild, u, administrator) ==
    /\ Connected
    /\ IF ~has_permissions(guild, administrator)
       THEN /\ outbox' = on_command_error("MissingPermissions", u)
            /\ UNCHANGED << allowed_channels, config_file >>
       ELSE IF MembershipRaises
       THEN /\ outbox' = on_command_error("CommandInvokeError", u)
            /\ UNCHANGED << allowed_channels, config_file >>
       ELSE IF DictHas(allowed_channels, IntKey(guild))
       THEN /\ allowed_channels' = DictDel(allowed_channels, IntKey(guild))
            /\ SaveAllowedChannels(allowed_channels')
            /\ outbox' = << [kind |-> "channel_removed"] >>
       ELSE /\ outbox' = << [kind |-> "no_restriction"] >>
            /\ UNCHANGED << allowed_channels, config_file >>
    /\ UNCHANGED << user_languages, api_status, random_state, hash_seed,
                    check_ban_task, health_task, arg_player_id, arg_valid >>

\* ------------------------------------------- !helpchannel, !botinfo, !ping
\* In a direct message ctx.guild is None and line 600 raises AttributeError,
\* which on_command_error only prints.
show_channel_info(guild, u) ==
    /\ Connected
    /\ IF guild = NoGuild \/ MembershipRaises
       THEN outbox' = on_command_error("CommandInvokeError", u)
       ELSE IF DictHas(allowed_channels, IntKey(guild))
       THEN \E found \in BOOLEAN :
               outbox' = << [kind |-> "channel_info",
                             channel |-> DictGet(allowed_channels, IntKey(guild)),
                             found |-> found] >>
       ELSE outbox' = << [kind |-> "channel_info_none"] >>
    /\ UNCHANGED << allowed_channels, user_languages, api_status, config_file,
                    random_state, hash_seed, check_ban_task, health_task,
                    arg_player_id, arg_valid >>

bot_information ==
    /\ Connected
    /\ outbox' = << [kind |-> "bot_info", api_working |-> api_status.working] >>
    /\ UNCHANGED << allowed_channels, user_languages, api_status, config_file,
                    random_state, hash_seed, check_ban_task, health_task,
                    arg_player_id, arg_valid >>

ping_command ==
    /\ Connected
    /\ outbox' = << [kind |-> "pong", api_working |-> api_status.working] >>
    /\ UNCHANGED << allowed_channels, user_languages, api_status, config_file,
                    random_state, hash_seed, check_ban_task, health_task,
                    arg_player_id, arg_valid >>

\* ------------------------------------------------------------ guild events
on_guild_join(guild) ==
    /\ Connected
    /\ \E can_send \in BOOLEAN :
          outbox' = IF can_send
                    THEN << [kind |-> "welcome", api_working |-> api_status.working] >>
                    ELSE <<>>
    /\ UNCHANGED << allowed_channels, user_languages, api_status, config_file,
                    random_state, hash_seed, check_ban_task, health_task,
                    arg_player_id, arg_valid >>

on_guild_remove(guild) ==
    /\ Connected
    /\ IF ~MembershipRaises /\ DictHas(allowed_channels, IntKey(guild))
       THEN /\ allowed_channels' = DictDel(allowed_channels, IntKey(guild))
            /\ SaveAllowedChannels(allowed_channels')
       ELSE UNCHANGED << allowed_channels, config_file >>
    /\ outbox' = <<>>
    /\ UNCHANGED << user_languages, api_status, random_state, hash_seed,
                    check_ban_task, health_task, arg_player_id, arg_valid >>

\* The process is stopped and started again: memory is as at start, the
\* config file is what it was.
Restart ==
    /\ allowed_channels' = <<>>
    /\ user_languages' = [u \in Users |-> Absent]
    /\ api_status' = [working |-> FALSE, active_endpoint |-> NoEndpoint]
    /\ random_state' \in InitialRandomStates
    /\ hash_seed' \in HashSeeds
    /\ check_ban_task' = IdleTask
    /\ health_task' = [pc |-> "request", idx |-> 1, caller |-> "start_bot"]
    /\ outbox' = <<>>
    /\ UNCHANGED << config_file, arg_player_id, arg_valid >>

\* ------------------------------------------------------------ specifications
\* Where a command is invoked: a direct message, or a channel of a guild.
DirectMessage == <<NoGuild, 1>>
Contexts == {DirectMessage} \cup (Guilds \X Channels)

\* One process whose hash key and generator state are fixed.
InitPinned == Init /\ hash_seed = 11 /\ random_state = 0

\* The channel restriction, the config store and the commands they gate.
ConfigIds == {Id12, MissingArgument}
ConfigLanguages == {NoArgument, "fr"}

NextConfig ==
    \/ \E ctx \in Contexts, u \in Users, found \in BOOLEAN, p \in ConfigIds :
          check_ban(ctx[1], ctx[2], u, found, p)
    \/ \E ctx \in Contexts, u \in Users, found \in BOOLEAN, l \in ConfigLanguages :
          set_language(ctx[1], ctx[2], u, found, l)
    \/ \E ctx \in Contexts, u \in Users, found \in BOOLEAN :
          server_count(ctx[1], ctx[2], u, found)
    \/ \E ctx \in Contexts, u \in Users, a \in BOOLEAN :
          set_restricted_channel(ctx[1], ctx[2], u, a)
    \/ \E ctx \in Contexts, u \in Users, a \in BOOLEAN :
          remove_channel_restriction(ctx[1], u, a)
    \/ \E ctx \in Contexts, u \in Users : show_channel_info(ctx[1], u)
    \/ \E g \in Guilds : on_guild_remove(g)
    \/ on_ready
    \/ \E o \in HealthOutcomes : check_api_health(o)

SpecConfig == InitPinned /\ [][NextConfig]_vars

\* The same with a config file the bot did not write itself.
FileContents ==
    { [kind |-> "missing", allowed_channels |-> <<>>],
      [kind |-> "truncated", allowed_channels |-> <<>>],
      [kind |-> "json_array", allowed_channels |-> <<>>],
      [kind |-> "json_null", allowed_channels |-> <<>>],
      [kind |-> "json", allowed_channels |-> PyNone],
      [kind |-> "json", allowed_channels |-> PyStrX],
      [kind |-> "json", allowed_channels |-> << <<StrKey(1), 1>> >>] }

InitLoad ==
    /\ InitMemory
    /\ hash_seed = 11 /\ random_state = 0
    /\ config_file \in FileContents
    /\ arg_player_id = <<>>
    /\ arg_valid = <<>>

SpecLoad == InitLoad /\ [][NextConfig]_vars

\* The lookups and the health checks, from direct messages.
NextLookup ==
    \/ \E u \in Users, p \in PlayerIds \cup {MissingArgument} :
          check_ban(NoGuild, 1, u, FALSE, p)
    \/ check_ban_enter
    \/ /\ check_ban_task.pc = "request"
       /\ \E r \in Responses(check_ban_task.player_id) : check_ban_response(r)
    \/ \E o \in HealthOutcomes : check_api_health(o)
    \/ api_status_command
    \/ \E u \in Users, l \in LanguageArguments :
          set_language(NoGuild, 1, u, FALSE, l)
    \/ Restart

SpecLookup == Init /\ [][NextLookup]_vars

\* Every command and event of one process, each user in the default language;
\* the health check's endpoint answers 200, and a lookup's endpoint answers
\* with a full record, with HTTP 500, or not before the total timeout.
AllIds == {Id123456, Id12, MissingArgument}
AllLanguages == {NoArgument, "de"}
AllHealthOutcomes == {"200"}
AllResponses(player_id) ==
    { r \in Responses(player_id) :
         \/ r.kind \in {"http_error", "total_timeout"}
         \/ r.kind = "ok" /\ "name" \in DOMAIN r.data }

NextAll ==
    \/ \E ctx \in Contexts, u \in Users, found \in BOOLEAN, p \in AllIds :
          check_ban(ctx[1], ctx[2], u, found, p)
    \/ check_ban_enter
    \/ /\ check_ban_task.pc = "request"
       /\ \E r \in AllResponses(check_ban_task.player_id) : check_ban_response(r)
    \/ \E ctx \in Contexts, u \in Users, found \in BOOLEAN, l \in AllLanguages :
          set_language(ctx[1], ctx[2], u, found, l)
    \/ \E ctx \in Contexts, u \in Users, found \in BOOLEAN :
          server_count(ctx[1], ctx[2], u, found)
    \/ \E ctx \in Contexts, u \in Users, a \in BOOLEAN :
          set_restricted_channel(ctx[1], ctx[2], u, a)
    \/ \E ctx \in Contexts, u \in Users, a \in BOOLEAN :
          remove_channel_restriction(ctx[1], u, a)
    \/ \E ctx \in Contexts, u \in Users : show_channel_info(ctx[1], u)
    \/ \E g \in Guilds : on_guild_remove(g)
    \/ \E g \in Guilds : on_guild_join(g)
    \/ on_ready
    \/ api_status_command
    \/ bot_information
    \/ ping_command
    \/ \E o \in AllHealthOutcomes : check_api_health(o)

SpecAll == InitPinned /\ [][NextAll]_vars

\* validate_player_id applied to one string.
RECURSIVE Pad(_)
Pad(n) == IF n = 0 THEN <<>> ELSE <<"1">> \o Pad(n - 1)

Tails == UNION { [1..n -> Chars] : n \in 0..MaxTail }
ValidateInputs == { Pad(n) \o t : n \in 0..MaxPad, t \in Tails }

InitValidate ==
    /\ InitMemory
    /\ config_file = [kind |-> "missing", allowed_channels |-> <<>>]
    /\ arg_player_id \in ValidateInputs
    /\ arg_valid = <<>>

validate_call ==
    /\ arg_valid = <<>>
    /\ arg_valid' = << validate_player_id(arg_player_id) >>
    /\ UNCHANGED << allowed_channels, user_languages, api_status, config_file,
                    random_state, hash_seed, check_ban_task, health_task, outbox,
                    arg_player_id >>

NextValidate == validate_call

SpecValidate == InitValidate /\ [][NextValidate]_vars


\* ==================================================================== claims
Replied(kind) == Len(outbox) > 0 /\ outbox[1].kind = kind
RestrictionKinds == {"restricted", "restricted_stale"}

GatedCommand(guild, channel, u, found) ==
    \/ \E p \in ConfigIds : check_ban(guild, channel, u, found, p)
    \/ \E l \in ConfigLanguages : set_language(guild, channel, u, found, l)
    \/ server_count(guild, channel, u, found)

GateShouldAllow(guild, channel) ==
    \/ guild = NoGuild
    \/ IntKey(guild) \notin DictKeys(allowed_channels)
    \/ \E i \in 1..Len(allowed_channels) :
          allowed_channels[i] = <<IntKey(guild), channel>>

C2_GateDecision ==
    [][ \A ctx \in Contexts, u \in Users, found \in BOOLEAN :
           GatedCommand(ctx[1], ctx[2], u, found) =>
              /\ (Len(outbox') > 0 /\ outbox'[1].kind \in RestrictionKinds)
                    <=> ~GateShouldAllow(ctx[1], ctx[2])
              /\ ctx[1] # NoGuild =>
                    (GateShouldAllow(ctx[1], ctx[2])
                        <=> is_allowed_channel(ctx[1], ctx[2], allowed_channels)) ]_vars

C2_Witness ==
    /\ Replied("restricted_stale")
    /\ \E g \in Guilds : DictHas(allowed_channels, IntKey(g))

\* C3: whatever an endpoint attempt of !ID comes to other than an accepted
\* response, get_player_status returns None without raising into check_ban,
\* and the next endpoint of the list is tried.
FailedResponses(player_id) == { r \in Responses(player_id) : r.kind # "ok" }

C3_FailureMeansNextEndpoint ==
    [][ check_ban_task.pc = "request" =>
          \A r \in FailedResponses(check_ban_task.player_id) :
             check_ban_response(r) =>
                /\ ~(Len(outbox') > 0 /\ outbox'[1].kind = "unexpected")
                /\ check_ban_task.idx < Len(API_ENDPOINTS) =>
                      /\ check_ban_task'.pc = "request"
                      /\ check_ban_task'.idx = check_ban_task.idx + 1 ]_vars

\* C4: a valid id, every endpoint failing (in whatever way, timeouts too),
\* mock fallback on: the answer of !ID is the payload of a synthesized record
\* whose mock flag is true, never the 'unexpected error' or 'try again
\* later' message.
C4_AllEndpointsDownGivesMock ==
    [][ check_ban_task.pc = "request" =>
          \A r \in FailedResponses(check_ban_task.player_id) :
             (check_ban_response(r) /\ check_ban_task'.pc = "idle") =>
                /\ Len(outbox') = 1
                /\ outbox'[1].kind = "status"
                /\ Get(outbox'[1].status_data, "mock", FALSE) ]_vars


\* C5 as stated: with E1 answering HTTP 500 and E2 answering 200 with a
\* record, the reply is built from E2's record, whatever api_status holds:
\* so every !ID with a valid id requests E1 first, and the record E2 returns
\* after E1's 500 is the one replied with.
E2AfterE1Http500 ==
    /\ check_ban_task.pc = "request"
    /\ check_ban_task.idx = 2
    /\ check_ban_task.requests = << [endpoint |-> "E1", response |-> "http_error"] >>

C5_PayloadOfE2WhateverHealth ==
    [][ /\ (check_ban_task.pc = "typing" /\ check_ban_enter) =>
              (check_ban_task'.pc = "request" /\ check_ban_task'.idx = 1)
        /\ E2AfterE1Http500 =>
              \A d \in LivePayloads(check_ban_task.player_id) :
                 check_ban_response([kind |-> "ok", data |-> d]) =>
                    (Len(outbox') = 1 /\ outbox'[1].kind = "status"
                        /\ outbox'[1].status_data = d) ]_vars

\* C5 amended: if api_status records a working endpoint when !ID reaches its
\* endpoint loop, E1 is requested first, a failed endpoint is followed by the
\* next one of the list and never requested again, the record E2 returns
\* after E1's 500 is the one replied with, and nothing is requested after an
\* accepted response; if api_status records none, no endpoint is requested
\* and the reply is built from mock data.
RequestsInListOrder ==
    /\ Len(check_ban_task.requests) = check_ban_task.idx - 1
    /\ \A i \in 1..Len(check_ban_task.requests) :
          /\ check_ban_task.requests[i].endpoint = API_ENDPOINTS[i]
          /\ check_ban_task.requests[i].response # "ok"

C5_PayloadOfE2WhenHealthy ==
    [][ /\ (check_ban_task.pc = "typing" /\ check_ban_enter) =>
              IF api_status.working /\ api_status.active_endpoint # NoEndpoint
              THEN /\ check_ban_task'.pc = "request"
                   /\ check_ban_task'.idx = 1
                   /\ check_ban_task'.requests = <<>>
              ELSE /\ check_ban_task'.pc = "idle"
                   /\ Len(outbox') = 1 /\ outbox'[1].kind = "status"
                   /\ Get(outbox'[1].status_data, "mock", FALSE)
        /\ check_ban_task.pc = "request" =>
              /\ RequestsInListOrder
              /\ \A r \in Responses(check_ban_task.player_id) :
                    check_ban_response(r) =>
                       /\ r.kind = "ok" =>
                             /\ check_ban_task'.pc = "idle"
                             /\ Len(outbox') = 1 /\ outbox'[1].kind = "status"
                             /\ outbox'[1].status_data = r.data
                       /\ check_ban_task'.pc = "request" =>
                             /\ r.kind # "ok"
                             /\ check_ban_task'.idx = check_ban_task.idx + 1
                             /\ check_ban_task'.idx <= Len(API_ENDPOINTS) ]_vars

C5_Witness == E2AfterE1Http500 /\ api_status.working

\* C6: within one process a reply built from mock data has the 'banned' and
\* 'name' that the identifier alone decides: they are the same from whatever
\* state earlier resolutions left the generator in.
ReferenceRandomStates == InitialRandomStates \cup {random_state}

C6_MockIsFunctionOfId ==
    \A i \in 1..Len(outbox) :
       (outbox[i].kind = "status" /\ Get(outbox[i].status_data, "mock", FALSE)) =>
          \A state \in ReferenceRandomStates :
             LET expected == mock_player_status(outbox[i].status_data.id, state).data
             IN  /\ outbox[i].status_data.banned = expected.banned
                 /\ outbox[i].status_data.name = Append(expected.name, DemoSuffix)

C6_Witness ==
    /\ Replied("status")
    /\ Get(outbox[1].status_data, "mock", FALSE)
    /\ outbox[1].status_data.id = Id777777
    /\ random_state \notin InitialRandomStates

\* C7: saving a map of integer guild ids and loading it again gives a map
\* with the same keys and values: a lookup by the integer guild id finds the
\* same channel as before the save.
SameMap(a, b) ==
    /\ DictKeys(a) = DictKeys(b)
    /\ \A k \in DictKeys(a) : DictGet(a, k) = DictGet(b, k)

C7_SaveLoadRoundTrip ==
    config_file = save_allowed_channels(allowed_channels, "ok") =>
       SameMap(load_allowed_channels("ok"), allowed_channels)

\* C8: once !setchannel in channel A of guild S has been saved, a reload of
\* the map from the file leaves the restriction in force: the gate still
\* denies every other channel of S and !removechannel still finds the entry.
ReloadFromFile == on_ready /\ allowed_channels' = load_allowed_channels("ok")

C8_RestrictionSurvivesReload ==
    [][ \A g \in Guilds :
           ( /\ DictHas(allowed_channels, IntKey(g))
             /\ config_file = save_allowed_channels(allowed_channels, "ok")
             /\ ReloadFromFile ) =>
              /\ DictHas(allowed_channels', IntKey(g))
              /\ \A c \in Channels \ {DictGet(allowed_channels, IntKey(g))} :
                    ~predicate(g, c)' ]_vars

\* C9: after !setchannel in channel A the map sends the guild to A; while it
\* does, a gated command in another channel B is denied, and the denial
\* names A when A is found; after !removechannel the map has no entry for
\* the guild, and then the same command in B is let through.
Denied(messages) == Len(messages) > 0 /\ messages[1].kind \in RestrictionKinds

C9_SetDenyRemoveAllow ==
    [][ \A g \in Guilds, u \in Users :
           /\ \A a \in Channels :
                 set_restricted_channel(g, a, u, TRUE) =>
                    (DictHas(allowed_channels', IntKey(g))
                        /\ DictGet(allowed_channels', IntKey(g)) = a)
           /\ remove_channel_restriction(g, u, TRUE) =>
                 ~DictHas(allowed_channels', IntKey(g))
           /\ \A b \in Channels, found \in BOOLEAN :
                 GatedCommand(g, b, u, found) =>
                    IF DictHas(allowed_channels, IntKey(g))
                          /\ DictGet(allowed_channels, IntKey(g)) # b
                    THEN /\ Denied(outbox')
                         /\ found => outbox'[1] =
                               [kind |-> "restricted",
                                channel |-> DictGet(allowed_channels, IntKey(g))]
                    ELSE ~DictHas(allowed_channels, IntKey(g)) => ~Denied(outbox') ]_vars

C9_Witness ==
    \E g \in Guilds :
       /\ DictHas(allowed_channels, IntKey(g))
       /\ Replied("restricted")
       /\ outbox[1].channel = DictGet(allowed_channels, IntKey(g))

\* C10 as stated: the in-memory map changes only in a !setchannel or
\* !removechannel of an administrator.
AdminSetOrRemove ==
    \E ctx \in Contexts, u \in Users :
       \/ set_restricted_channel(ctx[1], ctx[2], u, TRUE)
       \/ remove_channel_restriction(ctx[1], u, TRUE)

NonAdminSetOrRemove ==
    \E ctx \in Contexts, u \in Users, a \in BOOLEAN :
       /\ ~has_permissions(ctx[1], a)
       /\ \/ set_restricted_channel(ctx[1], ctx[2], u, a)
          \/ remove_channel_restriction(ctx[1], u, a)

C10_OnlyAdminsChangeMap ==
    [][ allowed_channels' # allowed_channels => AdminSetOrRemove ]_vars

\* C10 amended: within a process the in-memory map changes only in a
\* !setchannel or !removechannel of an administrator, in on_guild_remove and
\* in the reload of on_ready; a !setchannel or !removechannel of anyone else
\* leaves the map and the file as they are and is answered with the
\* permission-denied message.
C10_MapChangesOnlyByAdminsAndEvents ==
    [][ /\ allowed_channels' # allowed_channels =>
              \/ AdminSetOrRemove
              \/ \E g \in Guilds : on_guild_remove(g)
              \/ on_ready
        /\ NonAdminSetOrRemove =>
              /\ UNCHANGED << allowed_channels, config_file >>
              /\ outbox' = << [kind |-> "admin_required"] >> ]_vars

C10_Witness ==
    /\ outbox = << [kind |-> "admin_required"] >>
    /\ allowed_channels # <<>>
    /\ config_file.kind = "json"

\* C11: a command invocation sends at most one message to the user: a gated
\* command the gate denies sends the restriction message and nothing else,
\* and !ID sends exactly one of validation message, status payload, error
\* message.
C11_OneMessagePerInvocation ==
    [][ /\ Len(outbox') <= 1
        /\ \A ctx \in Contexts, u \in Users, found \in BOOLEAN :
              ( /\ ~predicate(ctx[1], ctx[2])
                /\ \/ \E p \in AllIds : check_ban(ctx[1], ctx[2], u, found, p)
                   \/ \E l \in AllLanguages : set_language(ctx[1], ctx[2], u, found, l)
                   \/ server_count(ctx[1], ctx[2], u, found) ) =>
                 outbox' = restriction_message(ctx[1], found) ]_vars

\* C12: a command handler that raises an exception no branch expects (!ID
\* whose lookup raises, !helpchannel where there is no server) sends the
\* user a failure message.
C12_UnexpectedExceptionsReported ==
    [][ /\ \A u \in Users : show_channel_info(NoGuild, u) => outbox' # <<>>
        /\ check_ban_task.pc = "request" =>
              \A r \in AllResponses(check_ban_task.player_id) :
                 (get_player_status(r).raised /\ check_ban_response(r)) =>
                    outbox' # <<>> ]_vars

\* C13: !ID with an identifier that fails validation sends the validation
\* message and ends there: the invocation starts no lookup (no endpoint is
\* requested for it) and draws no mock record.
C13_InvalidIdStopsBeforeLookup ==
    [][ \A ctx \in Contexts, u \in Users, found \in BOOLEAN, p \in AllIds \ {MissingArgument} :
           ( /\ predicate(ctx[1], ctx[2])
             /\ ~validate_player_id(p)
             /\ check_ban(ctx[1], ctx[2], u, found, p) ) =>
              /\ outbox' = << [kind |-> "invalid_id", lang |-> user_language(u)] >>
              /\ UNCHANGED << check_ban_task, random_state >> ]_vars

C13_Witness ==
    /\ Replied("invalid_id")
    /\ check_ban_task.pc = "idle"
    /\ api_status.working

\* C14: a load from a config file that is missing, unreadable or malformed
\* (no valid JSON, or valid JSON whose top level or whose 'allowed_channels'
\* is no mapping) leaves an empty restriction map, and the gate evaluated
\* afterwards decides without raising.
FileUnusable ==
    \/ config_file.kind \in {"missing", "truncated", "json_array", "json_null"}
    \/ config_file.kind = "json" /\ PyType(config_file.allowed_channels) # "dict"

C14_LoadNeverFails ==
    [][ ( /\ on_ready
          /\ \/ FileUnusable
             \/ allowed_channels' = load_allowed_channels("error") ) =>
           /\ allowed_channels' = <<>>
           /\ \A g \in Guilds : ~predicate_raises(g)' ]_vars

\* C15: the footer of a status reply carries the marker 'Demo Data' exactly
\* when the record it was built from has a true mock flag.
StatusReplies == { i \in 1..Len(outbox) : outbox[i].kind = "status" }

HasDemoMarker(footer) == \E i \in 2..Len(footer) : footer[i] = "Demo Data"

C15_DemoFooterIffMock ==
    \A i \in StatusReplies :
       HasDemoMarker(outbox[i].embed.footer) <=> Get(outbox[i].status_data, "mock", FALSE)

C15_Witness ==
    /\ Replied("status")
    /\ ~Get(outbox[1].status_data, "mock", FALSE)
    /\ ~HasDemoMarker(outbox[1].embed.footer)
    /\ ~api_status.working

\* C16: a status reply has, first of its fields and in this order, the
\* player id of its record between backquotes (inline), the player name
\* (inline) and the ban-status description (not inline), each under the
\* field name of the reply's language.
C16_ThreeFieldsInOrder ==
    \A i \in StatusReplies :
       LET embed == outbox[i].embed
           record == outbox[i].status_data
           bundle == embed.title[1]
           lang == embed.title[2]
       IN  /\ Len(embed.fields) >= 3
           /\ embed.fields[1] =
                 [name |-> <<"fields", lang, "player_id">>,
                  value |-> <<"backquote", record.id, "backquote">>, inline |-> TRUE]
           /\ embed.fields[2] =
                 [name |-> <<"fields", lang, "player_name">>,
                  value |-> Get(record, "name", <<"Unknown">>), inline |-> TRUE]
           /\ embed.fields[3] =
                 [name |-> <<"fields", lang, "status">>,
                  value |-> <<bundle, lang, "description">>, inline |-> FALSE]
           /\ bundle = (IF Get(record, "banned", FALSE) THEN "banned" ELSE "not_banned")

C16_Witness ==
    /\ Replied("status")
    /\ Len(outbox[1].embed.fields) = 4
    /\ outbox[1].embed.title[2] = "fr"
    /\ "name" \notin DOMAIN outbox[1].status_data

\* C17: the language map holds only 'en' and 'fr'; a user without an entry
\* is served in 'en'; !lang without a code or with a code that is neither
\* leaves the map as it is; so every lookup works in, and every message is
\* written in, a language of the translation table.
MessageLanguages(messages) ==
    { messages[i].lang : i \in { j \in 1..Len(messages) : "lang" \in DOMAIN messages[j] } }

C17_LanguagesAreSupported ==
    [][ /\ \A u \in Users : user_languages'[u] \in Languages \cup {Absent}
        /\ MessageLanguages(outbox') \subseteq Languages
        /\ check_ban_task'.pc # "idle" => check_ban_task'.lang \in Languages
        /\ \A i \in 1..Len(outbox') :
              outbox'[i].kind = "status" => outbox'[i].embed.title[2] \in Languages
        /\ \A u \in Users, l \in LanguageArguments :
              set_language(NoGuild, 1, u, FALSE, l) =>
                 /\ (l = NoArgument \/ lower_strip(l) \notin Languages) =>
                       UNCHANGED user_languages
                 /\ (l = NoArgument /\ user_languages[u] = Absent) =>
                       outbox' = << [kind |-> "current_language", lang |-> "en"] >> ]_vars

C17_Witness ==
    /\ \E u \in Users : user_languages[u] = "fr"
    /\ Replied("available_languages")

\* C18: every mutation of the restriction map is written to the file at
\* once and in full: when !setchannel, !removechannel or on_guild_remove has
\* changed the map and its handler completes, the file holds exactly the
\* entries of the map.
FileHoldsMap ==
    /\ config_file.kind = "json"
    /\ config_file.allowed_channels = json_dump_object(allowed_channels)

C18_MutationsAreFlushed ==
    [][ (allowed_channels' # allowed_channels /\ ~on_ready) => FileHoldsMap' ]_vars

\* C19: a status reply that carries the note 'Demo Mode (API offline)' is
\* built from a mock record, however the health checks interleave with the
\* lookup.
HasDemoNote(embed) == \E i \in 1..Len(embed.fields) : embed.fields[i] = DemoNote

C19_DemoNoteOnlyOnMock ==
    \A i \in StatusReplies :
       HasDemoNote(outbox[i].embed) => Get(outbox[i].status_data, "mock", FALSE)

====
